---- MODULE Spec2Model ----
(***************************************************************************)
(* The two-tier review cache of pkg/cache (ReviewCache): an in-process LRU *)
(* index (memCache + lru) over a directory of JSON entry files, with a     *)
(* background cleanup routine and batch fan-out.  Goroutines are modelled  *)
(* as processes that execute the methods step by step; a step is a         *)
(* critical section of c.mutex or one file-system call.                    *)
(*                                                                         *)
(* Sizes are in abstract units and durations in clock ticks; the program's *)
(* constants are scaled down, keeping their order                          *)
(* (maxFileSize <= maxCacheSize, a sweep interval below the idle limit).   *)
(***************************************************************************)
EXTENDS Integers, Sequences, FiniteSets, TLC

\* ------------------------------------------------------------------ bounds
MaxTime == 2
MaxOps == 3
MaxBatches == 2
MaxCalls == 4

\* ------------------------------------------------- program constants (scaled)
maxItems == 2
maxFileSize == 3
maxCacheSize == 5
subDirCount == 16
maxIdle == 2
workerLimit == 2

\* ------------------------------------------------------------------ domains
Callers == {1, 2}
Main == 1
Cleaner == 0
Contents == {1, 2, 3, 4}
\* the contents the single caller uses (all within maxFileSize)
Small == {1, 2}
\* the goroutine BatchGet or BatchSet starts for content c
Worker(c) == 10 + c
Workers == {Worker(c) : c \in Contents}
Values == {1, 2}
\* expireAfter: nil, or a *time.Duration (negative, zero or positive)
None == <<>>
Some(x) == <<x>>
Durations == {None, Some(-1), Some(0), Some(1)}
\* what the callers in cmd/cr and the pre-push hook pass: a positive
\* duration; nil is what the signature allows besides
Expiries == {None, Some(1)}

\* len(content): content c is c units long, so the largest content is over
\* maxFileSize
ContentLen(c) == c
\* len(result)
ResultLen(v) == v

\* ------------------------------------------------------------ fingerprints
\* hashContent: the hex digest, abstracted to two hex digits; injective on
\* Contents, and contents 1 and 2 differ in the leading digit
hashContent(c) == <<(c * 7) % 16, c % 16>>

\* the byte of a lower-case hex digit character ('0' = 48, 'a' = 97)
HexChar(d) == IF d < 10 THEN 48 + d ELSE 97 + (d - 10)

\* fmt.Sprintf("%02x", n) for 0 <= n < 256: the two hex digits of n
Fmt02x(n) == <<n \div 16, n % 16>>

\* the directory Set writes to: "%02x" of the BYTE ContentHash[0]
SetSubDir(h) == Fmt02x(HexChar(h[1]))

\* the directories Clear scans: "%02x" of i for i < subDirCount
SweepSubDirs == {Fmt02x(i) : i \in 0..(subDirCount - 1)}

\* a path is <<directory, file name>>; the cache root is the empty directory
\* name, the file name is the hash (".json" is implied)
RootDir == <<>>
\* (a variant in which Get reads the path Set writes)
ShardedPath(h) == <<Fmt02x(HexChar(h[1])), h>>
GetPath(h) == <<RootDir, h>>
SetPath(h) == <<SetSubDir(h), h>>

\* ------------------------------------------------------------------- JSON
jsonOverhead == 1
expireFieldLen == 1
\* json.Marshal(item): the bytes, abstracted to the item they decode to and
\* their length (expire_at is omitempty)
jsonMarshal(item) ==
    [item |-> Some(item),
     size |-> jsonOverhead + ResultLen(item.ReviewResult)
              + (IF item.ExpireAt = None THEN 0 ELSE expireFieldLen)]
\* a file opened with O_TRUNC and not yet written: no bytes
EmptyFile == [item |-> None, size |-> 0]
\* json.Unmarshal succeeds
Parses(data) == data.item # None
\* the bytes of a file after data is written at offset 0 over what another
\* writer left there: longer old contents keep their tail
WriteAt0(old, data) ==
    IF old.size <= data.size THEN data
    ELSE [item |-> None, size |-> old.size]

\* item.ExpireAt != nil && time.Now().After(*item.ExpireAt)
Expired(item, t) == item.ExpireAt # None /\ t > item.ExpireAt[1]
\* time.Since(item.LastAccessed) > 24*time.Hour
Idle(item, t) == t - item.LastAccessed > maxIdle

VARIABLES
    now,          \* the wall clock
    disk,         \* the cache directory: path -> file bytes
    memCache,     \* hash -> position in lru of the element it points to
    lru,          \* the list, front first; elements are *CacheItem
    currentSize,
    pc,           \* per goroutine: where it is in its method
    args,         \* per goroutine: the method and its arguments
    loc,          \* per goroutine: the item it holds
    ret,          \* per goroutine: what the method returned
    ops,          \* number of calls made so far
    \* history, read by the properties only
    alone,        \* per caller: no other goroutine took a step during its call
    fresh,        \* the Set that has just returned nil, nothing else since
    snap,         \* per caller in Clear: the contents cached when it began
    cleared,      \* contents cached before a Clear that returned, not Set since
    era           \* per content: Set succeeded in this process / an earlier one

\* the frame of a BatchGet or BatchSet call
VARIABLES
    batch,        \* the call: method, contents, result and expireAfter
    bpc,          \* where the call is: "idle", "loop" (the for loop), "done"
    todo,         \* the contents the loop has still to start a goroutine for
    workers,      \* number of tokens in the channel workers
    wg,           \* the WaitGroup's counter
    result,       \* BatchGet's map: content -> item
    errors,       \* BatchSet's channel errors: the contents its messages name
    bret          \* what the call returned

\* shutdown
VARIABLES
    stopCleanup,  \* the channel stopCleanup: "open" or "closed"
    crashed       \* the process has panicked

\* the pipeline that uses the cache (cmd/cr, or the pre-push hook)
VARIABLES
    pipe          \* its frame: where it is, its cache handle, the changes left

\* history of the LRU scenarios, read by the properties only
VARIABLES
    trail         \* the calls made so far, in order: <<method, content>>

prog == <<now, disk, memCache, lru, currentSize, pc, args, loc, ret, ops>>
hist == <<alone, fresh, snap, cleared, era>>
bvars == <<batch, bpc, todo, workers, wg, result, errors, bret>>
svars == <<stopCleanup, crashed>>
vars == <<prog, hist, bvars, svars, pipe, trail>>

Procs == Callers \cup {Cleaner} \cup Workers

NoArgs == [op |-> "none", content |-> 0, value |-> 0, expire |-> None]
NoRet == [item |-> None, err |-> "nil"]
Home(p) == IF p = Cleaner THEN "wait" ELSE "idle"

\* --------------------------------------------------------- the memory tier
\* the positions after an element is put in front of the list
Shifted(m) == [h \in DOMAIN m |-> m[h] + 1]
Without(m, h) == [k \in DOMAIN m \ {h} |-> m[k]]
With(m, h, x) == [k \in DOMAIN m \cup {h} |-> IF k = h THEN x ELSE m[k]]

\* removeOldest: drop lru.Back() and delete its ContentHash from the map
removeOldestLru(l) == IF Len(l) = 0 THEN l ELSE SubSeq(l, 1, Len(l) - 1)
removeOldestMap(m, l) == IF Len(l) = 0 THEN m ELSE Without(m, l[Len(l)].ContentHash)

\* (a variant that makes room only once the list is over maxItems)
evictLate(l) == IF Len(l) > maxItems THEN removeOldestLru(l) ELSE l
\* if c.lru.Len() >= c.maxItems { c.removeOldest() }
evictLru(l) == IF Len(l) >= maxItems THEN removeOldestLru(l) ELSE l
evictMap(m, l) == IF Len(l) >= maxItems THEN removeOldestMap(m, l) ELSE m

\* elem := c.lru.PushFront(&item); c.memCache[hash] = elem
pushLru(l, item) == <<item>> \o l
\* (a variant that leaves the map entry of a hash already present on its
\* old element)
pushMapKeepOld(m, h) ==
    IF h \in DOMAIN m THEN Shifted(m) ELSE With(Shifted(m), h, 1)
pushMap(m, h) == With(Shifted(m), h, 1)

\* (a variant that updates the element where it is)
touchInPlace(l, k, item) == [l EXCEPT ![k] = item]
\* c.lru.MoveToFront(elem), elem at position k
moveLru(l, k, item) == <<item>> \o SubSeq(l, 1, k - 1) \o SubSeq(l, k + 1, Len(l))
moveMap(m, k) ==
    [h \in DOMAIN m |-> IF m[h] = k THEN 1 ELSE IF m[h] < k THEN m[h] + 1 ELSE m[h]]

\* ------------------------------------------------------------------- Init
\* The cache directory outlives the process.  Besides being empty it may
\* hold an entry file of the flat layout (cacheDir/<hash>.json), written by
\* the earlier Set of this package, possibly cut short by a crash.
LegacyContents == {1}
LegacyItem(c, e) ==
    [ContentHash |-> hashContent(c), ReviewResult |-> 1,
     CachedAt |-> 0, ExpireAt |-> e, LastAccessed |-> 0]
LegacyFiles(c) ==
    {EmptyFile} \cup {jsonMarshal(LegacyItem(c, e)) : e \in {None, Some(1)}}

\* NewReviewCache: empty memory tier, currentSize 0, the cleanup routine
\* started
NoPipe ==
    [kind |-> "none", pc |-> "off", cache |-> "none", changes |-> <<>>,
     resp |-> 0, asked |-> 0, calls |-> 0, why |-> "none"]
NoBatch == [op |-> "none", items |-> {}, value |-> 0, expire |-> None]
NoBatchRet == [result |-> <<>>, err |-> None]
BatchIdle ==
    /\ batch = NoBatch
    /\ bpc = "idle"
    /\ todo = {}
    /\ workers = 0
    /\ wg = 0
    /\ result = <<>>
    /\ errors = {}
    /\ bret = NoBatchRet

NewReviewCache ==
    /\ memCache = <<>>
    /\ lru = <<>>
    /\ currentSize = 0
    /\ pc = [p \in Procs |-> Home(p)]
    /\ args = [p \in Procs |-> NoArgs]
    /\ loc = [p \in Procs |-> None]
    /\ ret = [p \in Procs |-> NoRet]

Init ==
    /\ now = 0
    /\ ops = 0
    /\ alone = [p \in Callers |-> TRUE]
    /\ fresh = None
    /\ snap = [p \in Callers |-> {}]
    /\ cleared = {}
    /\ era = [c \in Contents |-> "never"]
    /\ \/ disk = <<>>
       \/ \E c \in LegacyContents : \E f \in LegacyFiles(c) :
            disk = [q \in {GetPath(hashContent(c))} |-> f]
    /\ NewReviewCache
    /\ BatchIdle
    /\ stopCleanup = "open"
    /\ crashed = FALSE
    /\ pipe = NoPipe
    /\ trail = <<>>

\* A returned call is looked at before anything new begins: no call starts
\* and the clock does not advance while a result is waiting to be taken.
\* Calls already under way go on, so calls that overlapped can be seen
\* returned together.
NoneDone == \A p \in Procs : pc[p] # "done"

\* ------------------------------------------------------------------- time
\* A tick is hours long and a call is over in milliseconds: the clock
\* advances between calls, not during one
Tick ==
    /\ \A p \in Procs : pc[p] = Home(p)
    /\ bpc = "idle"
    /\ now < MaxTime
    /\ now' = now + 1
    /\ UNCHANGED <<disk, memCache, lru, currentSize, pc, args, loc, ret, ops>>

\* the budget of calls; the recorded scenarios have their own
Budget == IF trail = <<>> THEN MaxOps ELSE MaxCalls

\* a call: the goroutine is idle and the budget of calls is not used up
Call(p, a) ==
    /\ NoneDone
    /\ pc[p] = Home(p)
    /\ ops < Budget
    /\ ops' = ops + 1
    /\ args' = [args EXCEPT ![p] = a]

Step(p, at) ==
    /\ pc[p] = at
    /\ UNCHANGED <<args, ops>>

\* the first step of Get or Set: called by a caller, or by the goroutine a
\* batch call has started with these arguments
Begin(p, a) ==
    IF p \in Workers
    THEN pc[p] = "spawned" /\ args[p] = a /\ UNCHANGED <<args, ops>>
    ELSE Call(p, a)

Finish(p, r) ==
    /\ pc' = [pc EXCEPT ![p] = "done"]
    /\ ret' = [ret EXCEPT ![p] = r]

Goto(p, at) ==
    /\ pc' = [pc EXCEPT ![p] = at]
    /\ UNCHANGED ret

\* -------------------------------------------------------------------- Get
\* the call, and RLock .. RUnlock: the lookup in the memory tier
GetMem(p, c) ==
    /\ Begin(p, [NoArgs EXCEPT !.op = "Get", !.content = c])
    /\ LET h == hashContent(c) IN
       IF h \in DOMAIN memCache
       THEN LET k == memCache[h]
                item == [lru[k] EXCEPT !.LastAccessed = now]
            IN /\ lru' = moveLru(lru, k, item)
               /\ memCache' = moveMap(memCache, k)
               /\ Finish(p, [item |-> Some(item), err |-> "nil"])
       ELSE /\ Goto(p, "get_read")
            /\ UNCHANGED <<lru, memCache>>
    /\ UNCHANGED <<now, disk, currentSize, loc>>

\* os.ReadFile(cacheDir/<hash>.json), json.Unmarshal, the expiry check
GetRead(p) ==
    /\ Step(p, "get_read")
    /\ LET path == GetPath(hashContent(args[p].content)) IN
       IF path \notin DOMAIN disk
       THEN /\ Finish(p, NoRet)
            /\ UNCHANGED loc
       ELSE IF ~Parses(disk[path])
       THEN /\ Finish(p, [NoRet EXCEPT !.err = "unmarshal"])
            /\ UNCHANGED loc
       ELSE /\ loc' = [loc EXCEPT ![p] = disk[path].item]
            /\ Goto(p, IF Expired(disk[path].item[1], now)
                       THEN "get_remove" ELSE "get_insert")
    /\ UNCHANGED <<now, disk, memCache, lru, currentSize>>

\* os.Remove(cacheFile) of an expired entry
GetRemove(p) ==
    /\ Step(p, "get_remove")
    /\ LET path == GetPath(hashContent(args[p].content)) IN
       IF path \in DOMAIN disk
       THEN /\ disk' = [q \in DOMAIN disk \ {path} |-> disk[q]]
            /\ Finish(p, NoRet)
       ELSE /\ UNCHANGED disk
            /\ Finish(p, [NoRet EXCEPT !.err = "remove"])
    /\ loc' = [loc EXCEPT ![p] = None]
    /\ UNCHANGED <<now, memCache, lru, currentSize>>

\* Lock .. Unlock: add the entry read from the file to the memory tier
GetInsert(p) ==
    /\ Step(p, "get_insert")
    /\ LET item == [loc[p][1] EXCEPT !.LastAccessed = now] IN
         /\ lru' = pushLru(evictLru(lru), item)
         /\ memCache' = pushMap(evictMap(memCache, lru), hashContent(args[p].content))
         /\ Finish(p, [item |-> Some(item), err |-> "nil"])
    /\ loc' = [loc EXCEPT ![p] = None]
    /\ UNCHANGED <<now, disk, currentSize>>

\* -------------------------------------------------------------------- Set
\* the item Set builds: CachedAt and LastAccessed are time.Now(), ExpireAt
\* is CachedAt.Add(*expireAfter) when expireAfter is given
NewItem(c, v, e, t) ==
    [ContentHash |-> hashContent(c), ReviewResult |-> v, CachedAt |-> t,
     ExpireAt |-> IF e = None THEN None ELSE Some(t + e[1]),
     LastAccessed |-> t]

\* (a variant without the size check)
AnySize(c) == FALSE
\* contentSize > c.maxFileSize
TooLarge(c) == ContentLen(c) > maxFileSize

\* c.currentSize+contentSize > c.maxCacheSize
OverBudget(size, c) == size + ContentLen(c) > maxCacheSize

\* build the item (it is marshalled and the subdirectory made)
SetPrepare(p, a) ==
    /\ loc' = [loc EXCEPT ![p] = Some(NewItem(a.content, a.value, a.expire, now))]
    /\ Goto(p, "set_open")

\* the call, the size check and the capacity check, up to the call of Clear
SetCheck(p, c, v, e) ==
    LET a == [op |-> "Set", content |-> c, value |-> v, expire |-> e] IN
    /\ Begin(p, a)
    /\ IF TooLarge(c)
       THEN /\ Finish(p, [NoRet EXCEPT !.err = "size"])
            /\ UNCHANGED loc
       ELSE IF OverBudget(currentSize, c)
       THEN /\ Goto(p, "clear_reset")
            /\ UNCHANGED loc
       ELSE SetPrepare(p, a)
    /\ UNCHANGED <<now, disk, memCache, lru, currentSize>>

\* after the Clear that Set called: the capacity check again
SetRecheck(p) ==
    /\ IF OverBudget(currentSize, args[p].content)
       THEN /\ Finish(p, [NoRet EXCEPT !.err = "capacity"])
            /\ UNCHANGED loc
       ELSE SetPrepare(p, args[p])
    /\ UNCHANGED disk

\* os.WriteFile, first half: open(path, O_WRONLY|O_CREATE|O_TRUNC)
WriteOpen(p) ==
    /\ LET path == SetPath(loc[p][1].ContentHash) IN
         disk' = [q \in DOMAIN disk \cup {path} |->
                    IF q = path THEN EmptyFile ELSE disk[q]]
    /\ Goto(p, "set_write")
    /\ UNCHANGED loc

\* the step of Set that follows its checks: the open of os.WriteFile, or,
\* back from the Clear that Set called, the second capacity check
SetOpen(p) ==
    /\ pc[p] \in {"set_open", "set_recheck"}
    /\ UNCHANGED <<args, ops>>
    /\ IF pc[p] = "set_recheck" THEN SetRecheck(p) ELSE WriteOpen(p)
    /\ UNCHANGED <<now, memCache, lru, currentSize>>

\* os.WriteFile, second half: write(data) at offset 0 and close; a file
\* unlinked since the open stays unlinked
SetWrite(p) ==
    /\ Step(p, "set_write")
    /\ LET path == SetPath(loc[p][1].ContentHash) IN
         disk' = IF path \in DOMAIN disk
                 THEN [disk EXCEPT ![path] = WriteAt0(disk[path], jsonMarshal(loc[p][1]))]
                 ELSE disk
    /\ Goto(p, "set_insert")
    /\ UNCHANGED <<now, memCache, lru, currentSize, loc>>

\* Lock .. Unlock: add the item to the memory tier
SetInsert(p) ==
    /\ Step(p, "set_insert")
    /\ LET item == loc[p][1] IN
         /\ lru' = pushLru(evictLru(lru), item)
         /\ memCache' = pushMap(evictMap(memCache, lru), item.ContentHash)
    /\ Finish(p, NoRet)
    /\ loc' = [loc EXCEPT ![p] = None]
    /\ UNCHANGED <<now, disk, currentSize>>

\* ------------------------------------------------------------------ Clear
\* (a variant that resets the size counter only)
ResetSizeOnly ==
    /\ currentSize' = 0
    /\ UNCHANGED <<memCache, lru>>

\* Lock .. Unlock: a new map, lru.Init(), currentSize = 0
ResetMemory ==
    /\ memCache' = <<>>
    /\ lru' = <<>>
    /\ currentSize' = 0

\* Clear called by a caller, by the cleanup routine on a tick of its ticker,
\* or by Set (which is then at "clear_reset"): the reset under the lock
ClearReset(p) ==
    /\ IF pc[p] = "clear_reset"
       THEN Step(p, "clear_reset")
       ELSE Call(p, [NoArgs EXCEPT !.op = "Clear"])
    /\ ResetMemory
    /\ Goto(p, "clear_sweep")
    /\ UNCHANGED <<now, disk, loc>>

\* (a variant that removes every file of the cache directory)
SweepRemovesAll(d, t) == DOMAIN d

\* the files the loop over the subdirectories removes: the parseable .json
\* files of the scanned subdirectories that are expired or idle
SweepRemoves(d, t) ==
    {q \in DOMAIN d : /\ q[1] \in SweepSubDirs
                      /\ Parses(d[q])
                      /\ (Expired(d[q].item[1], t) \/ Idle(d[q].item[1], t))}

RECURSIVE SumSizes(_, _)
SumSizes(d, S) ==
    IF S = {} THEN 0
    ELSE LET q == CHOOSE x \in S : TRUE IN d[q].size + SumSizes(d, S \ {q})

\* the loop over the subdirectories.  It is one step: the directories it
\* reads are written by no other code
ClearSweep(p) ==
    /\ pc[p] = "clear_sweep"
    /\ LET R == SweepRemoves(disk, now) IN
         /\ disk' = [q \in DOMAIN disk \ R |-> disk[q]]
         /\ currentSize' = currentSize - SumSizes(disk, R)
    /\ IF p = Cleaner
       THEN /\ Goto(p, "wait")
            /\ args' = [args EXCEPT ![p] = NoArgs]
       ELSE /\ IF args[p].op = "Set" THEN Goto(p, "set_recheck") ELSE Finish(p, NoRet)
            /\ UNCHANGED args
    /\ UNCHANGED <<now, memCache, lru, loc, ops>>

\* ---------------------------------------------------------------- restart
\* the process ends, between two calls, and NewReviewCache is called again
\* on the same directory
Restart ==
    /\ \A p \in Procs : pc[p] = Home(p)
    /\ ops < MaxOps
    /\ ops' = ops + 1
    /\ memCache' = <<>>
    /\ lru' = <<>>
    /\ currentSize' = 0
    /\ pc' = [p \in Procs |-> Home(p)]
    /\ args' = [p \in Procs |-> NoArgs]
    /\ loc' = [p \in Procs |-> None]
    /\ ret' = [p \in Procs |-> NoRet]
    /\ UNCHANGED <<now, disk>>

\* the caller takes the result
Return(p) ==
    /\ pc[p] = "done"
    /\ pc' = [pc EXCEPT ![p] = Home(p)]
    /\ args' = [args EXCEPT ![p] = NoArgs]
    /\ ret' = [ret EXCEPT ![p] = NoRet]
    /\ UNCHANGED <<now, disk, memCache, lru, currentSize, loc, ops>>

\* ---------------------------------------------------------------- history
\* What the step of goroutine p that has just been taken adds to the history.
OthersHome(p) == \A q \in Procs \ {p} : pc[q] = Home(q)
SetUnderWay(c) ==
    \E q \in Callers : args[q].op = "Set" /\ args[q].content = c /\ pc[q] # "done"

Record(p) ==
    LET started == pc[p] = Home(p)
        ended == pc'[p] = "done"
        a == args'[p]
        aloneP == IF p = Cleaner THEN FALSE
                  ELSE IF started THEN OthersHome(p) ELSE alone[p]
        positive == a.expire = None \/ a.expire[1] > 0
    IN
    /\ alone' = [q \in Callers |->
                   IF q = p THEN aloneP
                   ELSE IF pc[q] \in {"idle", "done"} THEN alone[q] ELSE FALSE]
    /\ fresh' = IF p = Cleaner THEN None
                ELSE IF a.op = "Set"
                THEN IF ended /\ ret'[p].err = "nil" /\ aloneP /\ positive
                     THEN Some([content |-> a.content, value |-> a.value])
                     ELSE None
                ELSE IF a.op = "Get" /\ aloneP /\ fresh # None
                THEN IF fresh[1].content = a.content THEN fresh ELSE None
                ELSE None
    /\ snap' = IF p = Cleaner THEN snap
               ELSE IF started /\ a.op = "Clear"
               THEN [snap EXCEPT ![p] =
                       {c \in Contents : /\ hashContent(c) \in DOMAIN memCache
                                         /\ ~SetUnderWay(c)}]
               ELSE IF started /\ a.op = "Set"
               THEN [q \in Callers |-> snap[q] \ {a.content}]
               ELSE IF ended THEN [snap EXCEPT ![p] = {}]
               ELSE snap
    /\ cleared' = IF p = Cleaner THEN cleared
                  ELSE IF started /\ a.op = "Set" THEN cleared \ {a.content}
                  ELSE IF ended /\ a.op = "Clear" THEN cleared \cup snap[p]
                  ELSE cleared
    /\ era' = IF p # Cleaner /\ ended /\ a.op = "Set" /\ ret'[p].err = "nil"
              THEN [era EXCEPT ![a.content] = "cur"]
              ELSE era

RecordReturn(p) ==
    /\ alone' = [alone EXCEPT ![p] = TRUE]
    /\ fresh' = IF args[p].op = "Set" THEN fresh ELSE None
    /\ UNCHANGED <<snap, cleared, era>>

RecordRestart ==
    /\ alone' = [p \in Callers |-> TRUE]
    /\ fresh' = None
    /\ snap' = [p \in Callers |-> {}]
    /\ cleared' = {}
    /\ era' = [c \in Contents |-> IF era[c] = "never" THEN "never" ELSE "old"]

\* a step of goroutine p outside a batch call
Solo(p) == Record(p) /\ UNCHANGED <<bvars, svars, pipe, trail>>

\* ------------------------------------------------------------ one caller
\* A single caller goroutine, the cleanup routine beside it, and restarts.
Next ==
    \/ Tick /\ UNCHANGED <<hist, bvars, svars, pipe, trail>>
    \/ \E c \in Small : GetMem(Main, c) /\ Solo(Main)
    \/ GetRead(Main) /\ Solo(Main)
    \/ GetRemove(Main) /\ Solo(Main)
    \/ GetInsert(Main) /\ Solo(Main)
    \/ \E c \in Small, v \in Values, e \in Expiries :
          SetCheck(Main, c, v, e) /\ Solo(Main)
    \/ SetOpen(Main) /\ Solo(Main)
    \/ SetWrite(Main) /\ Solo(Main)
    \/ SetInsert(Main) /\ Solo(Main)
    \/ \E p \in {Main, Cleaner} : ClearReset(p) /\ Solo(p)
    \/ \E p \in {Main, Cleaner} : ClearSweep(p) /\ Solo(p)
    \/ Restart /\ RecordRestart /\ UNCHANGED <<bvars, svars, pipe, trail>>
    \/ Return(Main) /\ RecordReturn(Main) /\ UNCHANGED <<bvars, svars, pipe, trail>>

\* ----------------------------------------------------------- two callers
\* Two caller goroutines that run Set side by side.
NextConc ==
    \/ \E p \in Callers, c \in Small, v \in Values, e \in Expiries :
          SetCheck(p, c, v, e) /\ Solo(p)
    \/ \E p \in Callers : SetOpen(p) /\ Solo(p)
    \/ \E p \in Callers : SetWrite(p) /\ Solo(p)
    \/ \E p \in Callers : SetInsert(p) /\ Solo(p)
    \/ \E p \in Callers : Return(p) /\ RecordReturn(p) /\ UNCHANGED <<bvars, svars, pipe, trail>>

SpecConc == Init /\ [][NextConc]_vars

Spec == Init /\ [][Next]_vars

\* ------------------------------------------------------------------- Stop
\* the call of Stop
StopCall(p) ==
    /\ Call(p, [NoArgs EXCEPT !.op = "Stop"])
    /\ Goto(p, "stop_close")
    /\ UNCHANGED <<now, disk, memCache, lru, currentSize, loc>>
    /\ UNCHANGED svars

\* close(c.stopCleanup): closing a closed channel panics
StopClose(p) ==
    /\ Step(p, "stop_close")
    /\ IF stopCleanup = "open"
       THEN /\ stopCleanup' = "closed"
            /\ Finish(p, NoRet)
            /\ UNCHANGED crashed
       ELSE /\ crashed' = TRUE
            /\ UNCHANGED <<stopCleanup, pc, ret>>
    /\ UNCHANGED <<now, disk, memCache, lru, currentSize, loc>>

\* (a variant in which the routine goes round the loop again)
StaysInLoop(p) == "wait"
\* where the cleanup routine is after case <-c.stopCleanup: return
AfterStop(p) == "exited"

\* the select of the cleanup routine takes the case <-c.stopCleanup, which
\* is ready once the channel is closed
CleanerExit ==
    /\ pc[Cleaner] = "wait"
    /\ stopCleanup = "closed"
    /\ Goto(Cleaner, AfterStop(Cleaner))
    /\ UNCHANGED <<now, disk, memCache, lru, currentSize, args, loc, ops>>
    /\ UNCHANGED <<hist, bvars, svars, pipe, trail>>

\* One caller that runs Set and Stop beside the cleanup routine.  Nothing
\* runs once the process has panicked.
Running == ~crashed
CleanerReset == Running /\ ClearReset(Cleaner) /\ Solo(Cleaner)
CleanerSweep == Running /\ ClearSweep(Cleaner) /\ Solo(Cleaner)
CleanerStops == Running /\ CleanerExit
MainStopClose == Running /\ StopClose(Main) /\ Record(Main) /\ UNCHANGED <<bvars, pipe, trail>>
NextStop ==
    \/ \E c \in Small, v \in Values, e \in Expiries :
          Running /\ SetCheck(Main, c, v, e) /\ Solo(Main)
    \/ Running /\ SetOpen(Main) /\ Solo(Main)
    \/ Running /\ SetWrite(Main) /\ Solo(Main)
    \/ Running /\ SetInsert(Main) /\ Solo(Main)
    \/ Running /\ StopCall(Main) /\ Record(Main) /\ UNCHANGED <<bvars, pipe, trail>>
    \/ MainStopClose
    \/ CleanerReset
    \/ CleanerSweep
    \/ CleanerStops
    \/ Running /\ Return(Main) /\ RecordReturn(Main) /\ UNCHANGED <<bvars, svars, pipe, trail>>

\* The file-system calls of a sweep return, close returns, and the select,
\* which picks among its ready cases at random, takes the stop case in the
\* end.
SpecStop ==
    /\ Init
    /\ [][NextStop]_vars
    /\ WF_vars(CleanerSweep)
    /\ WF_vars(MainStopClose)
    /\ SF_vars(CleanerStops)

\* --------------------------------------------------------- LRU scenarios
\* A single caller that fills and reads the memory tier with three contents
\* (all within maxFileSize), one more than maxItems; the calls are recorded.
LruContents == {1, 2, 3}
LruValues == {1}

\* the step of caller p, recorded in trail when it is the call itself
Logged(p) ==
    /\ Record(p)
    /\ trail' = IF pc[p] = Home(p)
                THEN Append(trail, <<args'[p].op, args'[p].content>>)
                ELSE trail
    /\ UNCHANGED <<bvars, svars, pipe>>

NextLru ==
    \/ \E c \in LruContents : GetMem(Main, c) /\ Logged(Main)
    \/ GetRead(Main) /\ Logged(Main)
    \/ GetInsert(Main) /\ Logged(Main)
    \/ \E c \in LruContents, v \in LruValues :
          SetCheck(Main, c, v, None) /\ Logged(Main)
    \/ SetOpen(Main) /\ Logged(Main)
    \/ SetWrite(Main) /\ Logged(Main)
    \/ SetInsert(Main) /\ Logged(Main)
    \/ Return(Main) /\ RecordReturn(Main) /\ UNCHANGED <<bvars, svars, pipe, trail>>

SpecLru == Init /\ [][NextLru]_vars

\* ------------------------------------------------------ concurrent reads
\* Two callers whose calls of Get and Set overlap.  Here the hit of Get in
\* the memory tier is taken apart into the statements between RLock and
\* RUnlock, and the clock may advance while a call is under way (a call can
\* straddle the instant an entry expires).
\*
\* c.mutex is not a variable: a goroutine holds the read lock exactly while
\* it is between RLock and RUnlock, and the exclusive lock during the steps
\* that are a whole Lock .. Unlock section.
HoldsRLock(p) == pc[p] \in {"get_touch", "get_move"}
NoReader(p) == \A q \in Procs \ {p} : ~HoldsRLock(q)
\* (a variant in which Clear keeps the lock until it returns)
LockedThroughSweep == {"get_insert", "set_insert", "clear_reset", "clear_sweep"}
\* the Lock .. Unlock sections: of Get, of Set and of Clear
LockedSections == {"get_insert", "set_insert", "clear_reset"}

\* another goroutine is between RLock and RUnlock as well: its writes and
\* those of p are unordered
Racing(p) == \E q \in Procs \ {p} : HoldsRLock(q)

Perms(n) == {f \in [1..n -> 1..n] : \A i, j \in 1..n : f[i] = f[j] => i = j}

\* the call and c.mutex.RLock(); elem, ok := c.memCache[contentHash]
GetRLock(p, c) ==
    /\ Call(p, [NoArgs EXCEPT !.op = "Get", !.content = c])
    /\ Goto(p, IF hashContent(c) \in DOMAIN memCache THEN "get_touch" ELSE "get_read")
    /\ UNCHANGED <<now, disk, memCache, lru, currentSize, loc>>

\* item.LastAccessed = time.Now(), under the read lock; when unordered with
\* another goroutine's write the field ends up with either value
GetTouch(p) ==
    /\ Step(p, "get_touch")
    /\ LET k == memCache[hashContent(args[p].content)] IN
       \E t \in {now} \cup (IF Racing(p) THEN {lru[k].LastAccessed} ELSE {}) :
          lru' = [lru EXCEPT ![k].LastAccessed = t]
    /\ Goto(p, "get_move")
    /\ UNCHANGED <<now, disk, memCache, currentSize, loc>>

\* c.lru.MoveToFront(elem); c.mutex.RUnlock(); return item, nil.  The list
\* is relinked under the read lock; when that is unordered with another
\* goroutine's relinking, the elements end up in any order
GetMove(p) ==
    /\ Step(p, "get_move")
    /\ LET k == memCache[hashContent(args[p].content)] IN
       /\ \/ /\ lru' = moveLru(lru, k, lru[k])
             /\ memCache' = moveMap(memCache, k)
          \/ /\ Racing(p)
             /\ \E f \in Perms(Len(lru)) :
                  /\ lru' = [i \in 1..Len(lru) |-> lru[f[i]]]
                  /\ memCache' = [h \in DOMAIN memCache |->
                                    CHOOSE i \in 1..Len(lru) : f[i] = memCache[h]]
       /\ Finish(p, [item |-> Some(lru[k]), err |-> "nil"])
    /\ UNCHANGED <<now, disk, currentSize, loc>>

\* c.mutex.Lock() waits until no goroutine holds the read lock
GetInsertLocked(p) == NoReader(p) /\ GetInsert(p)
SetInsertLocked(p) == NoReader(p) /\ SetInsert(p)

\* the clock, at any moment
Clock ==
    /\ now < MaxTime
    /\ now' = now + 1
    /\ UNCHANGED <<disk, memCache, lru, currentSize, pc, args, loc, ret, ops>>

ReadContents == {1}
ReadValues == {1}

NextRead ==
    \/ Clock /\ UNCHANGED <<hist, bvars, svars, pipe, trail>>
    \/ \E p \in Callers, c \in ReadContents : GetRLock(p, c) /\ Solo(p)
    \/ \E p \in Callers : GetTouch(p) /\ Solo(p)
    \/ \E p \in Callers : GetMove(p) /\ Solo(p)
    \/ \E p \in Callers : GetRead(p) /\ Solo(p)
    \/ \E p \in Callers : GetRemove(p) /\ Solo(p)
    \/ \E p \in Callers : GetInsertLocked(p) /\ Solo(p)
    \/ \E p \in Callers, c \in Small, v \in ReadValues :
          SetCheck(p, c, v, None) /\ Solo(p)
    \/ \E p \in Callers : SetOpen(p) /\ Solo(p)
    \/ \E p \in Callers : SetWrite(p) /\ Solo(p)
    \/ \E p \in Callers : SetInsertLocked(p) /\ Solo(p)
    \/ \E p \in Callers : Return(p) /\ RecordReturn(p) /\ UNCHANGED <<bvars, svars, pipe, trail>>

SpecRead == Init /\ [][NextRead]_vars

\* ---------------------------------------------- removals beside writes
\* Two callers that read and write one content while the cleanup routine
\* sweeps and the clock advances at any moment: a file can be rewritten
\* between the read that finds it expired and the remove.  The statements
\* under the read lock are steps of their own, as in the concurrent reads.
RaceContents == {1}
RaceValues == {1}
\* expireAfter := 24 * time.Hour, as the callers pass it
RaceExpiries == {Some(1)}

NextRace ==
    \/ Clock /\ UNCHANGED <<hist, bvars, svars, pipe, trail>>
    \/ \E p \in Callers, c \in RaceContents : GetRLock(p, c) /\ Solo(p)
    \/ \E p \in Callers : GetTouch(p) /\ Solo(p)
    \/ \E p \in Callers : GetMove(p) /\ Solo(p)
    \/ \E p \in Callers : GetRead(p) /\ Solo(p)
    \/ \E p \in Callers : GetRemove(p) /\ Solo(p)
    \/ \E p \in Callers : GetInsertLocked(p) /\ Solo(p)
    \/ \E p \in Callers, c \in RaceContents, v \in RaceValues, e \in RaceExpiries :
          SetCheck(p, c, v, e) /\ Solo(p)
    \/ \E p \in Callers : SetOpen(p) /\ Solo(p)
    \/ \E p \in Callers : SetWrite(p) /\ Solo(p)
    \/ \E p \in Callers : SetInsertLocked(p) /\ Solo(p)
    \/ NoReader(Cleaner) /\ ClearReset(Cleaner) /\ Solo(Cleaner)
    \/ ClearSweep(Cleaner) /\ Solo(Cleaner)
    \/ \E p \in Callers : Return(p) /\ RecordReturn(p) /\ UNCHANGED <<bvars, svars, pipe, trail>>

SpecRace == Init /\ [][NextRace]_vars

\* ------------------------------------------------------- any expireAfter
\* A single caller whose Set is given every kind of duration the signature
\* allows: none, negative, zero, positive; and contents within and over
\* maxFileSize.
ExpiryContents == {1, 4}

NextExpiry ==
    \/ Tick /\ UNCHANGED <<hist, bvars, svars, pipe, trail>>
    \/ \E c \in ExpiryContents, v \in RaceValues, e \in Durations :
          SetCheck(Main, c, v, e) /\ Solo(Main)
    \/ SetOpen(Main) /\ Solo(Main)
    \/ SetWrite(Main) /\ Solo(Main)
    \/ SetInsert(Main) /\ Solo(Main)
    \/ Return(Main) /\ RecordReturn(Main) /\ UNCHANGED <<bvars, svars, pipe, trail>>

SpecExpiry == Init /\ [][NextExpiry]_vars

\* ---------------------------------------------------------- the pipelines
\* cmd/cr's main ("cr") and the pre-push hook's reviewRef ("hook") review
\* a list of changes, asking the cache first and filling it afterwards.
PipeKinds == {"cr", "hook"}
\* the diffs of the changes: one or two, a diff over maxFileSize among them
PipeChanges == {<<c>> : c \in {1, 2, 4}} \cup {<<c, d>> : c, d \in {1, 4}}
\* expireAfter := 24 * time.Hour
PipeExpire == Some(maxIdle)

\* a step of the pipeline outside the cache
Outside == UNCHANGED <<prog, hist, bvars, svars, trail>>
\* a step of the pipeline's call of Get or Set
Inner(p) == Record(p) /\ UNCHANGED <<bvars, svars>>

\* the pipeline is run on its changes
PipeStart(kind, changes) ==
    /\ pipe.pc = "off"
    /\ pipe' = [NoPipe EXCEPT !.kind = kind, !.pc = "new", !.changes = changes]
    /\ Outside

\* after NewReviewCache has failed: main logs the error and goes on, the
\* hook returns it
AfterNoCache(kind) == IF kind = "cr" THEN "loop" ELSE "aborted"

\* cache.NewReviewCache(cacheDir): os.MkdirAll succeeds or fails
PipeNew(ok) ==
    /\ pipe.pc = "new"
    /\ pipe' = IF ok
               THEN [pipe EXCEPT !.cache = "ok", !.pc = "loop"]
               ELSE [pipe EXCEPT !.cache = "nil", !.pc = AfterNoCache(pipe.kind),
                                 !.why = IF AfterNoCache(pipe.kind) = "aborted"
                                         THEN "cache" ELSE "none"]
    /\ Outside

\* for _, change := range changes: the end of the loop, or, main without a
\* cache, straight on to the model
PipeLoop ==
    /\ pipe.pc = "loop"
    /\ \/ pipe.changes = <<>> /\ pipe' = [pipe EXCEPT !.pc = "report"]
       \/ pipe.changes # <<>> /\ pipe.cache = "nil"
            /\ pipe' = [pipe EXCEPT !.pc = "chat"]
    /\ Outside

\* reviewCache.Get(change.DiffContent), its first step
PipeGet ==
    /\ pipe.pc = "loop"
    /\ pipe.changes # <<>>
    /\ pipe.cache = "ok"
    /\ GetMem(Main, Head(pipe.changes))
    /\ pipe' = [pipe EXCEPT !.pc = "in_get", !.calls = @ + 1]
    /\ Inner(Main)
    /\ UNCHANGED trail

\* err == nil && cached != nil: the cached result is used, continue
PipeGot ==
    /\ pipe.pc = "in_get"
    /\ Return(Main)
    /\ pipe' = IF ret[Main].err = "nil" /\ ret[Main].item # None
               THEN [pipe EXCEPT !.pc = "loop", !.changes = Tail(@)]
               ELSE [pipe EXCEPT !.pc = "chat"]
    /\ RecordReturn(Main)
    /\ UNCHANGED <<bvars, svars, trail>>

\* modelClient.Chat(req) answers or fails: on failure main logs and
\* continues, the hook returns the error
PipeChat(ok, v) ==
    /\ pipe.pc = "chat"
    /\ pipe' = IF ok
               THEN [pipe EXCEPT !.pc = "set", !.resp = v, !.asked = @ + 1]
               ELSE IF pipe.kind = "cr"
               THEN [pipe EXCEPT !.pc = "loop", !.changes = Tail(@), !.asked = @ + 1]
               ELSE [pipe EXCEPT !.pc = "aborted", !.why = "chat", !.asked = @ + 1]
    /\ Outside

\* main without a cache has nothing to fill
PipeSkipSet ==
    /\ pipe.pc = "set"
    /\ pipe.cache = "nil"
    /\ pipe' = [pipe EXCEPT !.pc = "loop", !.changes = Tail(@)]
    /\ Outside

\* reviewCache.Set(change.DiffContent, result, &expireAfter), its first step
PipeSet ==
    /\ pipe.pc = "set"
    /\ pipe.cache = "ok"
    /\ SetCheck(Main, Head(pipe.changes), pipe.resp, PipeExpire)
    /\ pipe' = [pipe EXCEPT !.pc = "in_set", !.calls = @ + 1]
    /\ Inner(Main)
    /\ UNCHANGED trail

\* Set has returned: on an error main logs and continues, the hook returns
\* the error
PipeSetDone ==
    /\ pipe.pc = "in_set"
    /\ Return(Main)
    /\ pipe' = IF ret[Main].err # "nil" /\ pipe.kind = "hook"
               THEN [pipe EXCEPT !.pc = "aborted", !.why = "set"]
               ELSE [pipe EXCEPT !.pc = "loop", !.changes = Tail(@)]
    /\ RecordReturn(Main)
    /\ UNCHANGED <<bvars, svars, trail>>

\* a step inside the pipeline's Get or Set
Within == Inner(Main) /\ UNCHANGED <<pipe, trail>>

NextPipe ==
    \/ Tick /\ UNCHANGED <<hist, bvars, svars, pipe, trail>>
    \/ \E k \in PipeKinds, ch \in PipeChanges : PipeStart(k, ch)
    \/ \E ok \in BOOLEAN : PipeNew(ok)
    \/ PipeLoop
    \/ PipeGet
    \/ GetRead(Main) /\ Within
    \/ GetRemove(Main) /\ Within
    \/ GetInsert(Main) /\ Within
    \/ PipeGot
    \/ \E ok \in BOOLEAN, v \in Values : PipeChat(ok, v)
    \/ PipeSkipSet
    \/ PipeSet
    \/ SetOpen(Main) /\ Within
    \/ SetWrite(Main) /\ Within
    \/ SetInsert(Main) /\ Within
    \/ PipeSetDone

SpecPipe == Init /\ [][NextPipe]_vars

\* ------------------------------------------------------- BatchGet, BatchSet
\* the inputs of the batch calls: none, and more contents than workerLimit,
\* without and with a content over maxFileSize among them
BatchInputs == {{}, {1, 2, 3}, {2, 3, 4}}
\* the result BatchSet's map gives to every content of a call
BatchValues == {1}

\* the call: result := make(map..), workers := make(chan struct{}, 10),
\* errors := make(chan error, len(items)); BatchSet gives every item of this
\* call the result v
BatchCall(op, items, v, e) ==
    /\ bpc = "idle"
    /\ \A p \in Procs : pc[p] = Home(p)
    /\ ops < MaxBatches
    /\ ops' = ops + 1
    /\ batch' = [op |-> op, items |-> items, value |-> v, expire |-> e]
    /\ bpc' = "loop"
    /\ todo' = items
    /\ workers' = 0
    /\ wg' = 0
    /\ result' = <<>>
    /\ errors' = {}
    /\ bret' = NoBatchRet
    /\ args' = [p \in Procs |-> IF p \in Workers THEN NoArgs ELSE args[p]]
    /\ ret' = [p \in Procs |-> IF p \in Workers THEN NoRet ELSE ret[p]]
    /\ UNCHANGED <<now, disk, memCache, lru, currentSize, pc, loc>>

\* (a variant in which the send never blocks)
CanSendAlways(n) == TRUE
\* workers <- struct{}{} goes through when the channel is not full
CanSend(n) == n < workerLimit

\* one round of the for loop: wg.Add(1), workers <- struct{}{}, go func
Dispatch(c) ==
    /\ bpc = "loop"
    /\ c \in todo
    /\ CanSend(workers)
    /\ todo' = todo \ {c}
    /\ wg' = wg + 1
    /\ workers' = workers + 1
    /\ pc' = [pc EXCEPT ![Worker(c)] = "spawned"]
    /\ args' = [args EXCEPT ![Worker(c)] =
                  IF batch.op = "BatchGet"
                  THEN [NoArgs EXCEPT !.op = "Get", !.content = c]
                  ELSE [op |-> "Set", content |-> c, value |-> batch.value,
                        expire |-> batch.expire]]
    /\ UNCHANGED <<now, disk, memCache, lru, currentSize, loc, ret, ops>>
    /\ UNCHANGED <<batch, bpc, result, errors, bret>>

\* errors := make(chan error, len(items)): a send goes through while the
\* channel holds fewer messages than its capacity
ErrorsHasRoom == Cardinality(errors) < Cardinality(batch.items)

\* (a variant that drops the message)
SendErrorDropped(ch, c) == ch
\* errors <- fmt.Errorf("... [%s]: %v", content, err)
SendError(ch, c) == ch \cup {c}

\* the goroutine after its Get or Set has returned: the hit goes into
\* result under mu, the failure into errors
Collect(w) ==
    /\ pc[w] = "done"
    /\ pc' = [pc EXCEPT ![w] = "exit"]
    /\ LET c == args[w].content IN
       IF batch.op = "BatchGet"
       THEN /\ result' = IF ret[w].err = "nil" /\ ret[w].item # None
                         THEN With(result, c, ret[w].item[1])
                         ELSE result
            /\ UNCHANGED errors
       ELSE /\ ret[w].err # "nil" => ErrorsHasRoom
            /\ errors' = IF ret[w].err # "nil" THEN SendError(errors, c) ELSE errors
            /\ UNCHANGED result
    /\ UNCHANGED <<now, disk, memCache, lru, currentSize, args, loc, ret, ops>>
    /\ UNCHANGED <<batch, bpc, todo, workers, wg, bret>>

\* (a variant in which the goroutine keeps its token)
KeepToken(n) == n
\* <-workers: a token leaves the channel
TakeToken(n) == n - 1

\* the deferred calls: <-workers, then wg.Done()
Exit(w) ==
    /\ pc[w] = "exit"
    /\ pc' = [pc EXCEPT ![w] = "idle"]
    /\ workers' = TakeToken(workers)
    /\ wg' = wg - 1
    /\ UNCHANGED <<now, disk, memCache, lru, currentSize, args, loc, ret, ops>>
    /\ UNCHANGED <<batch, bpc, todo, result, errors, bret>>

\* the loop is over: wg.Wait(), (close(errors), the messages collected,) return
BatchWait ==
    /\ bpc = "loop"
    /\ todo = {}
    /\ wg = 0
    /\ bpc' = "done"
    /\ bret' = IF batch.op = "BatchGet"
               THEN [result |-> result, err |-> None]
               ELSE [result |-> <<>>,
                     err |-> IF errors # {} THEN Some(errors) ELSE None]
    /\ UNCHANGED prog
    /\ UNCHANGED <<batch, todo, workers, wg, result, errors>>

\* the caller takes the result of the batch call
BatchReturn ==
    /\ bpc = "done"
    /\ bpc' = "idle"
    /\ batch' = NoBatch
    /\ result' = <<>>
    /\ errors' = {}
    /\ bret' = NoBatchRet
    /\ args' = [p \in Procs |-> IF p \in Workers THEN NoArgs ELSE args[p]]
    /\ ret' = [p \in Procs |-> IF p \in Workers THEN NoRet ELSE ret[p]]
    /\ UNCHANGED <<now, disk, memCache, lru, currentSize, pc, loc, ops>>
    /\ UNCHANGED <<todo, workers, wg>>

\* The file-system steps of the goroutines of one batch call commute with
\* every step of the other goroutines: the contents of a call are distinct,
\* so no two of them touch the same file; so does the step that puts the
\* outcome into result or errors.  Such a step is taken as soon as it is
\* due, lowest goroutine first, and no other order is explored.
Local(w) == pc[w] \in {"get_read", "get_remove", "set_open", "set_write", "done"}
Busy == \E w \in Workers : Local(w)
Turn(w) == IF Local(w) THEN \A u \in Workers : Local(u) => u >= w ELSE ~Busy

\* a step of a goroutine started by a batch call
InBatch(w) == Turn(w) /\ UNCHANGED <<hist, bvars, svars, pipe, trail>>
\* a step of the batch call itself
OfBatch == ~Busy /\ UNCHANGED <<hist, svars, pipe, trail>>

\* One caller that makes batch calls, one after the other.
NextBatch ==
    \/ Tick /\ UNCHANGED <<hist, bvars, svars, pipe, trail>>
    \/ \E items \in BatchInputs : BatchCall("BatchGet", items, 0, None) /\ OfBatch
    \/ \E items \in BatchInputs, v \in BatchValues, e \in Expiries :
          BatchCall("BatchSet", items, v, e) /\ OfBatch
    \/ \E c \in Contents : Dispatch(c) /\ OfBatch
    \/ \E w \in Workers, c \in Contents : GetMem(w, c) /\ InBatch(w)
    \/ \E w \in Workers : GetRead(w) /\ InBatch(w)
    \/ \E w \in Workers : GetRemove(w) /\ InBatch(w)
    \/ \E w \in Workers : GetInsert(w) /\ InBatch(w)
    \/ \E w \in Workers, c \in Contents :
          SetCheck(w, c, batch.value, batch.expire) /\ InBatch(w)
    \/ \E w \in Workers : SetOpen(w) /\ InBatch(w)
    \/ \E w \in Workers : SetWrite(w) /\ InBatch(w)
    \/ \E w \in Workers : SetInsert(w) /\ InBatch(w)
    \/ \E w \in Workers : Collect(w) /\ Turn(w) /\ UNCHANGED <<hist, svars, pipe, trail>>
    \/ \E w \in Workers : Exit(w) /\ OfBatch
    \/ BatchWait /\ OfBatch
    \/ BatchReturn /\ OfBatch

\* the batch calls are made on a cache directory that holds a complete
\* entry file of the flat layout, with an expiry
InitBatch ==
    /\ Init
    /\ disk # <<>>
    /\ \A q \in DOMAIN disk : Parses(disk[q]) /\ disk[q].item[1].ExpireAt # None

SpecBatch == InitBatch /\ [][NextBatch]_vars

\* The goroutines of a batch call are scheduled: while a step of the call can
\* be taken, one is taken in the end.
SpecBatchLive == SpecBatch /\ WF_vars(NextBatch)

\* ============================================================ properties
Returned(p, op) == pc[p] = "done" /\ args[p].op = op
Found(p) == ret[p].item # None
NotFound(p) == ret[p].item = None /\ ret[p].err = "nil"
\* the entry files written by Set: those outside the cache root
SetFiles == {q \in DOMAIN disk : q[1] # RootDir}
SameEntry(x, y) ==
    /\ x.ContentHash = y.ContentHash
    /\ x.ReviewResult = y.ReviewResult
    /\ x.CachedAt = y.CachedAt
    /\ x.ExpireAt = y.ExpireAt

\* C1: a Get(C) that directly follows a Set(C, V, no or positive expiry)
\* which returned nil, with no step of anything else in between, returns a
\* non-nil item whose ReviewResult is V, and a nil error.
C1_SetThenGet ==
    (/\ Returned(Main, "Get")
     /\ alone[Main]
     /\ fresh # None
     /\ fresh[1].content = args[Main].content)
    => /\ Found(Main)
       /\ ret[Main].item[1].ReviewResult = fresh[1].value
       /\ ret[Main].err = "nil"

\* the Get after a second Set of the same content with another value
C1_Witness ==
    /\ Returned(Main, "Get")
    /\ alone[Main]
    /\ fresh # None
    /\ fresh[1].content = args[Main].content
    /\ Found(Main)
    /\ Len(lru) = 2
    /\ lru[2].ContentHash = lru[1].ContentHash
    /\ lru[2].ReviewResult # lru[1].ReviewResult

\* C2: Get returns no entry whose ExpireAt is before the current time.
C2_NoExpiredReturned ==
    (Returned(Main, "Get") /\ Found(Main)) => ~Expired(ret[Main].item[1], now)

\* C3: a Get(C) on a new instance, C's Set having succeeded on an earlier
\* one and its entry file being on disk unexpired, returns that entry.
C3_RestartKeeps ==
    LET c == args[Main].content
        path == SetPath(hashContent(c))
    IN (/\ Returned(Main, "Get")
        /\ alone[Main]
        /\ era[c] = "old"
        /\ path \in DOMAIN disk
        /\ Parses(disk[path])
        /\ ~Expired(disk[path].item[1], now))
       => /\ Found(Main)
          /\ SameEntry(ret[Main].item[1], disk[path].item[1])

\* C4: when a Set has returned nil, the entry files written by Set add up
\* to no more than maxCacheSize.
C4_WithinBudget ==
    (Returned(Main, "Set") /\ ret[Main].err = "nil")
    => SumSizes(disk, SetFiles) <= maxCacheSize

MemoryEmpty == lru = <<>> /\ memCache = <<>>
Stale(item, t) == Expired(item, t) \/ Idle(item, t)
SweepKeepsFresh ==
    \A p \in Procs :
        (pc[p] = "clear_sweep" /\ pc'[p] # "clear_sweep")
        => \A q \in DOMAIN disk :
              (Parses(disk[q]) /\ ~Stale(disk[q].item[1], now))
              => (q \in DOMAIN disk' /\ disk'[q] = disk[q])
EntriesOf(h) == {k \in 1..Len(lru) : lru[k].ContentHash = h}
C7_OneWellFormedEntry ==
    (/\ \A p \in Callers : Returned(p, "Set") /\ ret[p].err = "nil"
     /\ \A p, q \in Callers : args[p].content = args[q].content)
    => LET h == hashContent(args[Main].content) IN
       /\ SetPath(h) \in DOMAIN disk
       /\ Parses(disk[SetPath(h)])
       /\ h \in DOMAIN memCache
       /\ Cardinality(EntriesOf(h)) = 1

BatchReturned(op) == bpc = "done" /\ batch.op = op
\* an entry file of content c, parseable and not expired, is in the cache
\* directory
Cached(c) ==
    \E q \in {SetPath(hashContent(c)), GetPath(hashContent(c))} :
        /\ q \in DOMAIN disk
        /\ Parses(disk[q])
        /\ ~Expired(disk[q].item[1], now)

\* C8: the mapping BatchGet returns has exactly the contents of its input
\* that are cached and unexpired as keys, each mapped to its own entry, and
\* the error is nil.
C8_ExactlyTheCached ==
    BatchReturned("BatchGet")
    => /\ DOMAIN bret.result = {c \in batch.items : Cached(c)}
       /\ \A c \in DOMAIN bret.result :
             bret.result[c].ContentHash = hashContent(c)
       /\ bret.err = None

\* C9: when BatchSet returns, Set has been called and has returned for every
\* item; the error is nil iff every Set returned nil, and otherwise holds
\* one message for each item whose Set failed; the entry of every item whose
\* Set returned nil is in the persistent tier.
Failed == {c \in batch.items : ret[Worker(c)].err # "nil"}
StoredBy(c) ==
    LET q == SetPath(hashContent(c)) IN
    /\ q \in DOMAIN disk
    /\ Parses(disk[q])
    /\ disk[q].item[1].ReviewResult = batch.value
C9_BatchSetAggregates ==
    BatchReturned("BatchSet")
    => /\ \A c \in batch.items :
             /\ args[Worker(c)].op = "Set"
             /\ args[Worker(c)].content = c
             /\ pc[Worker(c)] = "idle"
       /\ (bret.err = None) <=> (Failed = {})
       /\ bret.err # None => bret.err[1] = Failed
       /\ \A c \in batch.items \ Failed : StoredBy(c)

\* a BatchSet in which one Set failed and two succeeded
C9_Witness ==
    /\ BatchReturned("BatchSet")
    /\ Cardinality(Failed) = 1
    /\ bret.err = Some(Failed)
    /\ Cardinality({c \in batch.items \ Failed : StoredBy(c)}) = 2

\* C10: at every moment of a batch call at most workerLimit of its
\* goroutines are inside Get or Set.
InFlight == {w \in Workers : pc[w] \notin {"idle", "done", "exit"}}
C10_AtMostLimit == Cardinality(InFlight) <= workerLimit

\* workerLimit operations in flight while the loop has a content left that
\* it cannot start
C10_Witness ==
    /\ bpc = "loop"
    /\ todo # {}
    /\ Cardinality(InFlight) = workerLimit
    /\ workers = workerLimit

\* C11: once Stop has closed the channel the cleanup routine leaves its
\* loop (unless the process panics first); a routine that has left starts no
\* sweep and stays out; and a Stop that has been called returns, whether or
\* not a sweep is under way.
Sweeping == pc[Cleaner] \in {"clear_sweep"}
StaysExited == pc[Cleaner] = "exited" => pc'[Cleaner] = "exited"
C11_StopHaltsCleanup ==
    /\ (stopCleanup = "closed") ~> (pc[Cleaner] = "exited" \/ crashed)
    /\ [][StaysExited]_vars
    /\ (pc[Main] = "stop_close" /\ stopCleanup = "open") ~> Returned(Main, "Stop")

\* Stop has returned while a sweep of the cleanup routine is under way
C11_Witness ==
    /\ Returned(Main, "Stop")
    /\ stopCleanup = "closed"
    /\ Sweeping
    /\ ~crashed

\* C12: a Get that ran alone returns a nil error, and no unparseable file
\* is left at the path it read (it found none, or has deleted it).
C12_CorruptIsSoftMiss ==
    LET path == GetPath(hashContent(args[Main].content)) IN
    (Returned(Main, "Get") /\ alone[Main])
    => /\ ret[Main].err = "nil"
       /\ path \in DOMAIN disk => Parses(disk[path])

\* C13: a pipeline whose NewReviewCache has failed does not stop for that,
\* calls neither Get nor Set, and, when it is through, has sent every change
\* to the model.
C13_ContinuesWithoutCache ==
    pipe.cache = "nil"
    => /\ ~(pipe.pc = "aborted" /\ pipe.why = "cache")
       /\ pipe.calls = 0
       /\ pc[Main] = "idle"
       /\ pipe.pc = "report" => pipe.changes = <<>>
\* the ContentHash of the elements of the list, front first
Hashes(l) == [i \in 1..Len(l) |-> l[i].ContentHash]

\* the step is a hit of Get in the memory tier
IsHit == pc[Main] = "idle" /\ pc'[Main] = "done" /\ args'[Main].op = "Get"
\* the step is an insert into the memory tier (by Set, or by Get from a file)
IsInsert == pc[Main] \in {"set_insert", "get_insert"} /\ pc'[Main] = "done"
\* the list without its element at position k
Dropped(l, k) == SubSeq(l, 1, k - 1) \o SubSeq(l, k + 1, Len(l))

\* C14: a Get that hits the memory tier moves the entry to the front of the
\* list and leaves the order of the others; an insert into a tier that holds
\* maxItems entries removes the element at the back, and its key, and nothing
\* else, before the new entry goes to the front; and after Set A, Set B,
\* Get A, Set C on an empty tier of capacity 2 the tier holds exactly A and C
LruMoves ==
    IsHit =>
        LET h == hashContent(args'[Main].content)
            k == memCache[h]
        IN /\ Hashes(lru')[1] = h
           /\ memCache'[h] = 1
           /\ Dropped(Hashes(lru'), 1) = Dropped(Hashes(lru), k)
           /\ DOMAIN memCache' = DOMAIN memCache
LruEvicts ==
    (IsInsert /\ Len(lru) >= maxItems) =>
        LET h == hashContent(args[Main].content) IN
        /\ Hashes(lru') = <<h>> \o SubSeq(Hashes(lru), 1, Len(lru) - 1)
        /\ DOMAIN memCache' = (DOMAIN memCache \ {lru[Len(lru)].ContentHash}) \cup {h}
Scenario(a, b, c) ==
    /\ trail = <<<<"Set", a>>, <<"Set", b>>, <<"Get", a>>, <<"Set", c>>>>
    /\ pc[Main] = "done"
LruScenario ==
    \A a, b, c \in LruContents :
        (Cardinality({a, b, c}) = 3 /\ Scenario(a, b, c))
        => /\ DOMAIN memCache = {hashContent(a), hashContent(c)}
           /\ Hashes(lru) = <<hashContent(c), hashContent(a)>>
C15_MutationsUnderLock ==
    [][(lru' # lru \/ memCache' # memCache)
       => \E p \in Callers :
            /\ pc'[p] # pc[p]
            /\ pc[p] \in LockedSections
            /\ NoReader(p)]_vars

\* C16: the list has no two elements with the same ContentHash, it has as
\* many elements as the map has keys, and every key of the map points to the
\* element of the list that carries that key
C16_OneEntryPerFingerprint ==
    /\ \A i, j \in 1..Len(lru) : lru[i].ContentHash = lru[j].ContentHash => i = j
    /\ Len(lru) = Cardinality(DOMAIN memCache)
    /\ \A h \in DOMAIN memCache :
          memCache[h] \in 1..Len(lru) /\ lru[memCache[h]].ContentHash = h

\* C17: the list never has more than maxItems elements
C17_Bounded == Len(lru) <= maxItems

\* a BatchSet of more contents than maxItems has stored them all: the list is
\* full and an entry has been evicted
C17_Witness ==
    /\ BatchReturned("BatchSet")
    /\ Failed = {}
    /\ Cardinality(batch.items) > maxItems
    /\ Len(lru) = maxItems
    /\ \E c \in batch.items : hashContent(c) \notin DOMAIN memCache

\* what Get(c) returns at time t from memory tier (m, l) and directory d:
\* the hit in the map; else the file cacheDir/<hash>.json, read, parsed and
\* checked for expiry
GetResult(m, l, d, c, t) ==
    LET h == hashContent(c)
        path == GetPath(h)
    IN IF h \in DOMAIN m THEN <<"found", l[m[h]].ReviewResult>>
       ELSE IF path \notin DOMAIN d THEN <<"none">>
       ELSE IF ~Parses(d[path]) THEN <<"error">>
       ELSE IF Expired(d[path].item[1], t) THEN <<"none">>
       ELSE <<"found", d[path].item[1].ReviewResult>>

\* no call is under way
Quiet == \A p \in Procs : pc[p] = Home(p)

\* C18: between calls, Get(C) returns for every content C what it would
\* return from an empty memory tier: the same found or not-found outcome and
\* the same value
C18_MemoryIsDiscardable ==
    Quiet => \A c \in Contents :
                GetResult(memCache, lru, disk, c, now) = GetResult(<<>>, <<>>, disk, c, now)

\* a Set is between its file write and its insert into the memory tier
SetMidway == \E p \in Procs : pc[p] = "set_insert"
\* an entry file for hash h, at the path Set writes or the path Get reads
HasFile(h) == SetPath(h) \in DOMAIN disk \/ GetPath(h) \in DOMAIN disk

\* C19: when no Set is between its file write and its insert, every hash in
\* the memory tier has an entry file in the cache directory
C19_MemorySubsetOfDisk ==
    ~SetMidway => \A h \in DOMAIN memCache : HasFile(h)

\* the sweep of goroutine p ends with this step, no other goroutine being
\* inside a call
SweepEnds(p) ==
    /\ pc[p] = "clear_sweep"
    /\ pc'[p] # "clear_sweep"
    /\ \A q \in Procs \ {p} : pc[q] \in {Home(q), "done"}

\* C20: when a sweep ends, run by the cleanup routine, by a caller's Clear or
\* by Set, no entry file written by Set is left that is expired or idle
SweepLeavesNoStale ==
    \A p \in Procs :
        SweepEnds(p)
        => \A q \in DOMAIN disk' :
              (q[1] # RootDir /\ Parses(disk'[q])) => ~Stale(disk'[q].item[1], now')
C20_SweepRemovesStale == [][SweepLeavesNoStale]_vars

\* the directories Set can write to: one for each first character of a hash
SetSubDirs == {SetSubDir(<<d, 0>>) : d \in 0..15}

\* C21: every entry file Set has written is in one of the subDirCount
\* subdirectories that Clear's sweep scans, and the directories Set can
\* write to are exactly the directories the sweep scans
C21_ShardsAreSwept ==
    /\ \A q \in DOMAIN disk : q[1] # RootDir => q[1] \in SweepSubDirs
    /\ SetSubDirs = SweepSubDirs

\* the entry files of hash h: at the path Set writes and the path Get reads
FilesOf(h) == {SetPath(h), GetPath(h)} \cap DOMAIN disk

\* C22: a Get that returns an entry sets its LastAccessed to the time of the
\* Get, and that is the LastAccessed the idle test of the sweep reads, which
\* is the one in the entry file
C22_GetRefreshesIdleClock ==
    (Returned(Main, "Get") /\ Found(Main))
    => /\ ret[Main].item[1].LastAccessed = now
       /\ \A q \in FilesOf(hashContent(args[Main].content)) :
             Parses(disk[q])
             => disk[q].item[1].LastAccessed = ret[Main].item[1].LastAccessed

\* C23: a step that removes a file removes one that is expired or idle by
\* the contents it has at that moment: a file a Set has rewritten since the
\* remover read it is not removed
NoFreshFileRemoved ==
    \A q \in DOMAIN disk \ DOMAIN disk' :
        Parses(disk[q]) /\ Stale(disk[q].item[1], now)
C23_NoFreshWriteDestroyed == [][NoFreshFileRemoved]_vars

\* a Get has read an expired file and is about to remove it, and a Set of
\* the same content has meanwhile written its file, complete and unexpired
C23_Witness ==
    \E p, q \in Callers :
        LET h == hashContent(args[p].content) IN
        /\ args[p].op = "Get" /\ pc[p] = "get_remove"
        /\ GetPath(h) \in DOMAIN disk
        /\ Expired(disk[GetPath(h)].item[1], now)
        /\ args[q].op = "Set" /\ pc[q] = "set_insert"
        /\ args[q].content = args[p].content
        /\ SetPath(h) \in DOMAIN disk
        /\ disk[SetPath(h)] = jsonMarshal(loc[q][1])
        /\ ~Stale(loc[q][1], now)

\* C24: whoever reads the path of an entry file Set writes finds no file or
\* a complete entry, the previous one or the new one, at every moment
C24_NoHalfWrittenFile ==
    \A q \in DOMAIN disk : q[1] # RootDir => Parses(disk[q])

\* the positions whose next step is a call of the file system: os.ReadFile,
\* os.Remove, os.WriteFile (open, write), and the scan of the subdirectories
IOSteps == {"get_read", "get_remove", "set_open", "set_write", "clear_sweep"}

\* the step goroutine p takes is made with c.mutex held, shared or exclusive
UnderLock(p) ==
    /\ pc'[p] # pc[p]
    /\ \/ HoldsRLock(p)
       \/ pc[p] \in LockedSections
       \/ pc[p] = Home(p) /\ args'[p].op \in {"Get", "Clear"}

\* C25: a step made with the mutex held is no call of the file system and
\* leaves the cache directory as it is; this holds for Get, for Set and for
\* Clear, whose scan is a step of its own after the reset
NoIOUnderLock ==
    \A p \in Procs : UnderLock(p) => (pc[p] \notin IOSteps /\ disk' = disk)
C25_NoLockAcrossIO == [][NoIOUnderLock]_vars

\* the cleanup routine is about to scan the subdirectories, its reset done,
\* while a caller holds the read lock
C25_Witness ==
    /\ pc[Cleaner] = "clear_sweep"
    /\ \E p \in Callers : HoldsRLock(p)

\* C26: the entry file of a Set that was given an expireAfter has an
\* ExpireAt strictly after its CachedAt, whatever the duration
C26_ExpiryAfterCreation ==
    \A q \in DOMAIN disk :
        (q[1] # RootDir /\ Parses(disk[q]) /\ disk[q].item[1].ExpireAt # None)
        => disk[q].item[1].ExpireAt[1] > disk[q].item[1].CachedAt

\* C27: no call of Stop, the first or a later one, panics
C27_StopIsIdempotent == ~crashed

\* C28: every BatchGet and BatchSet call returns in the end, with no items,
\* and with more items than the channel workers has room for
C28_BatchReturns == (bpc = "loop") ~> (bpc = "done")

\* a batch call of more items than workerLimit has returned; so has, before
\* or after, one of no items
C28_Witness ==
    /\ bpc = "done"
    /\ ops = MaxBatches
    /\ \/ Cardinality(batch.items) > workerLimit
       \/ batch.items = {}

\* C29: between calls currentSize is the total size of the entry files Set
\* has written that are in the cache directory, and it is never negative
C29_SizeTracksDisk ==
    /\ Quiet => currentSize = SumSizes(disk, SetFiles)
    /\ currentSize >= 0

\* the step is the first of a Set of goroutine p
SetBegins(p) ==
    /\ pc[p] \in {Home(p), "spawned"}
    /\ pc'[p] \notin {Home(p), "spawned"}
    /\ args'[p].op = "Set"

\* C30: a Set of a content longer than maxFileSize returns an error at once:
\* it writes no file, calls no Clear, and leaves the map, the list with its
\* order and currentSize as they are
RejectsTooLarge ==
    \A p \in Procs :
        (SetBegins(p) /\ ContentLen(args'[p].content) > maxFileSize)
        => /\ pc'[p] = "done"
           /\ ret'[p].err = "size"
           /\ UNCHANGED <<disk, memCache, lru, currentSize>>
C30_TooLargeChangesNothing == [][RejectsTooLarge]_vars

\* a Set of a content over maxFileSize has returned its error, the memory
\* tier and the cache directory holding an entry
C30_Witness ==
    /\ Returned(Main, "Set")
    /\ ContentLen(args[Main].content) > maxFileSize
    /\ ret[Main].err = "size"
    /\ lru # <<>>
    /\ SetFiles # {}

====
